---- MODULE Spec2Model ----
(***************************************************************************)
(* A model of the volume renderer of nerf.ipynb: render_along_ray (the     *)
(* compositor), bracket / interpolate / VoxelGrid.forward (trilinear       *)
(* lookup), sample_along_ray / sample_rays (the ray sampler),              *)
(* SimpleDVGO.forward (the scene renderer) and create_rays (the            *)
(* orthographic ray factory).                                              *)
(*                                                                         *)
(* Real numbers are exact rationals <<n, d>> in lowest terms with d > 0,   *)
(* so no rounding of the float32 arithmetic is modelled.  Densities are    *)
(* measured in units of Quantum * ln 2: exp(-r) of a density r that is a   *)
(* multiple of 1/Quantum is then the dyadic rational 2^(-r * Quantum),     *)
(* which keeps exp exact.                                                  *)
(***************************************************************************)
EXTENDS Integers, Sequences, FiniteSets, TLC

VARIABLES render, voxel, dvgo, orth

vars == <<render, voxel, dvgo, orth>>

(***************************************************************************)
(* Bounds of the model.                                                    *)
(***************************************************************************)
\* longest density/colour sequence handed to render_along_ray
MaxN == 3
\* largest density of one sample, in multiples of 1/Quantum
MaxD == 2
\* exp(-1/Quantum) = 1/2
Quantum == 2
\* grid coordinates of the looked-up points are multiples of 1/LatticeRes
LatticeRes == 3
\* the farthest looked-up points lie more than FarOut voxels outside the grid
FarOut == 3
\* the most pixels on one axis of a face handed to create_rays
MaxPixels == 3
\* the widest ray vector handed to SimpleDVGO.forward
MaxWidth == 7

(***************************************************************************)
(* Exact rational arithmetic.                                              *)
(***************************************************************************)
RECURSIVE GCD(_, _)
GCD(a, b) == IF b = 0 THEN a ELSE GCD(b, a % b)

Abs(a) == IF a < 0 THEN -a ELSE a

\* the rational n/d (d # 0) in lowest terms with a positive denominator
Rat(n, d) ==
    LET g == GCD(Abs(n), Abs(d))
        s == IF d < 0 THEN -1 ELSE 1
    IN  <<(s * n) \div g, (s * d) \div g>>

Zero == <<0, 1>>
One  == <<1, 1>>
Half == <<1, 2>>

LCM(a, b) == (a \div GCD(a, b)) * b

RAdd(p, q) ==
    LET l == LCM(p[2], q[2])
    IN  Rat(p[1] * (l \div p[2]) + q[1] * (l \div q[2]), l)
RNeg(p)    == <<-p[1], p[2]>>
RSub(p, q) == RAdd(p, RNeg(q))
\* cross-cancel before multiplying, to keep the products small
RMul(p, q) ==
    LET g1 == GCD(Abs(p[1]), q[2])
        g2 == GCD(Abs(q[1]), p[2])
    IN  Rat((p[1] \div g1) * (q[1] \div g2), (p[2] \div g2) * (q[2] \div g1))
RDiv(p, q) == RMul(p, Rat(q[2], q[1]))
RLe(p, q)  == RSub(p, q)[1] <= 0
RLt(p, q)  == RSub(p, q)[1] < 0
RFloor(p)  == p[1] \div p[2]
RClamp(p, lo, hi) == IF RLt(p, lo) THEN lo ELSE IF RLt(hi, p) THEN hi ELSE p
IsInt(p)   == p[2] = 1

RECURSIVE RSumTo(_, _)
RSumTo(s, n) == IF n = 0 THEN Zero ELSE RAdd(RSumTo(s, n - 1), s[n])
RSum(s) == RSumTo(s, Len(s))

RECURSIVE Pow2(_)
Pow2(k) == IF k = 0 THEN 1 ELSE 2 * Pow2(k - 1)

\* torch.exp(-r) for a density r that is a multiple of 1/Quantum
ExpNeg(r) ==
    LET k == RMul(r, <<Quantum, 1>>)[1]
    IN  IF k >= 0 THEN <<1, Pow2(k)>> ELSE <<Pow2(-k), 1>>

OnQuantum(r) == IsInt(RMul(r, <<Quantum, 1>>))

(***************************************************************************)
(* Colours.                                                                *)
(***************************************************************************)
WHITE == <<One, One, One>>
BLACK == <<Zero, Zero, Zero>>
MIXED == <<One, Zero, Half>>
Channels == 1..3

(***************************************************************************)
(* render_along_ray                                                        *)
(***************************************************************************)
\* alpha = 1 - torch.exp(-density)
AlphaMutTransparency(density) == [i \in 1..Len(density) |-> ExpNeg(density[i])]
Alpha(density) == [i \in 1..Len(density) |-> RSub(One, ExpNeg(density[i]))]

\* torch.cumsum(density, dim=-1): the inclusive prefix sums
CumSum(density) == [i \in 1..Len(density) |-> RSumTo(density, i)]

\* trans = exp(-cumulative_density), then shifted right by one behind a 1
TransMutInclusive(density) ==
    [i \in 1..Len(density) |-> ExpNeg(CumSum(density)[i])]
Trans(density) ==
    LET cumulative_density == CumSum(density)
        trans == [i \in 1..Len(density) |-> ExpNeg(cumulative_density[i])]
    IN  IF density = <<>> THEN <<>>
        ELSE <<One>> \o SubSeq(trans, 1, Len(density) - 1)

\* weights = alpha * trans
Weights(density) ==
    LET alpha == Alpha(density)
        trans == Trans(density)
    IN  [i \in 1..Len(density) |-> RMul(alpha[i], trans[i])] \o <<>>

\* color_acc + (1.0 - acc) * background
Composite(weights, rgb, background) ==
    LET color_acc == [j \in Channels |->
                        RSum([i \in 1..Len(weights) |-> RMul(weights[i], rgb[i][j])])]
        acc == RSum(weights)
    IN  [j \in Channels |-> RAdd(color_acc[j], RMul(RSub(One, acc), background[j]))]

\* the call with its intermediate weights kept beside the returned colour
RenderTrace(density, rgb, background) ==
    LET weights == Weights(density)
    IN  [weights |-> weights, color |-> Composite(weights, rgb, background)]

render_along_ray(density, rgb, background) ==
    RenderTrace(density, rgb, background).color

(***************************************************************************)
(* bracket, interpolate, VoxelGrid                                         *)
(***************************************************************************)
IClamp(i, lo, hi) == IF i < lo THEN lo ELSE IF i > hi THEN hi ELSE i

\* bracket(x, n): n is the number of stored corners on the axis
bracketMutMaxN(x, n) ==
    LET x0 == RFloor(x)
    IN  [X0 |-> IClamp(x0, 0, n), X1 |-> IClamp(x0 + 1, 0, n),
         a  |-> RClamp(RSub(x, <<x0, 1>>), Zero, One)]
bracketMutClampedBase(x, n) ==
    LET x0 == IClamp(RFloor(x), 0, n - 1)
    IN  [X0 |-> x0, X1 |-> IClamp(x0 + 1, 0, n - 1),
         a  |-> RSub(x, <<x0, 1>>)]
bracketMutVoxelCount(x, n) ==
    LET x0 == RFloor(x)
    IN  [X0 |-> IClamp(x0, 0, n - 2), X1 |-> IClamp(x0 + 1, 0, n - 2),
         a  |-> RClamp(RSub(x, <<x0, 1>>), Zero, One)]
bracket(x, n) ==
    LET x0 == RFloor(x)
        X0 == IClamp(x0, 0, n - 1)
        X1 == IClamp(x0 + 1, 0, n - 1)
    IN  [X0 |-> X0, X1 |-> X1, a |-> RClamp(RSub(x, <<x0, 1>>), Zero, One)]

\* v0 * (1 - alpha) + v1 * alpha, on vectors of the grid's width d
interpolateMutSwapped(v0, v1, alpha) ==
    [c \in 1..Len(v0) |-> RAdd(RMul(v1[c], RSub(One, alpha)), RMul(v0[c], alpha))]
interpolate(v0, v1, alpha) ==
    [c \in 1..Len(v0) |-> RAdd(RMul(v0[c], RSub(One, alpha)), RMul(v1[c], alpha))] \o <<>>

\* storage_shape = tuple(s + 1 for s in shape)
StorageShape(shape) == [k \in 1..3 |-> shape[k] + 1]

Corners(shape) ==
    (0..shape[1]) \X (0..shape[2]) \X (0..shape[3])

\* .squeeze(-1): a vector of width 1 becomes its only entry
Squeeze(v) == IF Len(v) = 1 THEN v[1] ELSE v

\* an index as the tensor indexing takes it: a negative one counts from the end
WrapIndex(i, n) == IF i < 0 THEN i + n ELSE i
ValidIndex(i, n) == -n <= i /\ i <= n - 1

\* self.grid[X, Y, Z, :]
ReadCorner(grid, X, Y, Z) ==
    grid.at[<<WrapIndex(X, grid.shape[1]), WrapIndex(Y, grid.shape[2]),
              WrapIndex(Z, grid.shape[3])>>]

\* VoxelGrid.forward at one point P, with the brackets kept beside the value
\* (a vector of the grid's width, before the final squeeze).
\* grid is [shape |-> the storage shape, at |-> the corner values]; a read
\* outside the storage raises IndexError.
ForwardTrace(grid, P) ==
    LET bx == bracket(P[1], grid.shape[1])
        by == bracket(P[2], grid.shape[2])
        bz == bracket(P[3], grid.shape[3])
        ok == /\ ValidIndex(bx.X0, grid.shape[1]) /\ ValidIndex(bx.X1, grid.shape[1])
              /\ ValidIndex(by.X0, grid.shape[2]) /\ ValidIndex(by.X1, grid.shape[2])
              /\ ValidIndex(bz.X0, grid.shape[3]) /\ ValidIndex(bz.X1, grid.shape[3])
        y0z0 == interpolate(ReadCorner(grid, bx.X0, by.X0, bz.X0),
                            ReadCorner(grid, bx.X1, by.X0, bz.X0), bx.a)
        y1z0 == interpolate(ReadCorner(grid, bx.X0, by.X1, bz.X0),
                            ReadCorner(grid, bx.X1, by.X1, bz.X0), bx.a)
        y0z1 == interpolate(ReadCorner(grid, bx.X0, by.X0, bz.X1),
                            ReadCorner(grid, bx.X1, by.X0, bz.X1), bx.a)
        y1z1 == interpolate(ReadCorner(grid, bx.X0, by.X1, bz.X1),
                            ReadCorner(grid, bx.X1, by.X1, bz.X1), bx.a)
        z0 == interpolate(y0z0, y1z0, by.a)
        z1 == interpolate(y0z1, y1z1, by.a)
    IN  [bx |-> bx, by |-> by, bz |-> bz, ok |-> ok,
         value |-> IF ok THEN interpolate(z0, z1, bz.a) ELSE <<>>]

\* the value returned: interpolate(z0, z1, c).squeeze(-1)
VoxelGrid_forward(grid, P) == Squeeze(ForwardTrace(grid, P).value)

(***************************************************************************)
(* sample_along_ray, sample_rays                                           *)
(***************************************************************************)
\* The width two last axes of widths a and b broadcast to: equal widths, or
\* one of them 1; -1 when the addition raises RuntimeError.
BroadcastWidth(a, b) ==
    IF a = b THEN a ELSE IF a = 1 THEN b ELSE IF b = 1 THEN a ELSE -1

\* entry c of a vector broadcast from width Len(v)
Entry(v, c) == IF Len(v) = 1 THEN v[1] ELSE v[c]

Failed(error) == [error |-> error, value |-> <<>>]
Value(v)      == [error |-> "none", value |-> v]

\* origins[..., None, :] + t_values[:, None] * directions[..., None, :] for one
\* ray: a point per t value
sample_along_ray(t_values, origin, direction) ==
    LET w == BroadcastWidth(Len(origin), Len(direction))
    IN  IF w = -1
        THEN Failed("RuntimeError")
        ELSE Value([i \in 1..Len(t_values) |->
                      [c \in 1..w |-> RAdd(Entry(origin, c),
                                           RMul(t_values[i], Entry(direction, c)))]])

Min(a, b) == IF a < b THEN a ELSE b

\* actual_ts: t_values, moved in training by (torch.rand(n) - 0.5) / n
ActualTs(t_values, training, rand) ==
    LET n == Len(t_values)
    IN  IF training
        THEN [i \in 1..n |-> RAdd(t_values[i], RDiv(RSub(rand[i], Half), <<n, 1>>))]
        ELSE t_values

\* the tensor passed as t_values once sample_rays has returned or raised: the
\* random scalar is added to t_values.clone(), never to t_values itself
StoredTsMutInPlace(t_values, training, rand) == ActualTs(t_values, training, rand)
StoredTs(t_values, training, rand) == t_values

\* sample_rays on a batch (a sequence of rays of one width); rand holds the
\* n numbers torch.rand(n) draws from [0, 1)
sample_rays(t_values, rays, training, rand) ==
    LET actual_ts == ActualTs(t_values, training, rand)
        \* rays[..., :3] and rays[..., 3:]
        origins(r)    == SubSeq(r, 1, Min(3, Len(r)))
        directions(r) == SubSeq(r, 4, Len(r))
        each == [b \in 1..Len(rays) |->
                   sample_along_ray(actual_ts, origins(rays[b]), directions(rays[b]))]
    IN  IF \E b \in 1..Len(rays) : each[b].error # "none"
        THEN Failed("RuntimeError")
        ELSE Value([b \in 1..Len(rays) |-> each[b].value])

(***************************************************************************)
(* SimpleDVGO                                                              *)
(***************************************************************************)
\* torch.linspace(start, end, steps)
Linspace(start, end, steps) ==
    [k \in 1..steps |->
       RAdd(start, RDiv(RMul(<<k - 1, 1>>, RSub(end, start)), <<steps - 1, 1>>))]

\* SimpleDVGO.__init__, the two grids given by their contents
SimpleDVGO_init(config, density_grid, rgb_grid) ==
    LET depths == Linspace(config.near, config.far, config.num_samples + 1)
    IN  [depths   |-> depths,
         t_values |-> [i \in 1..config.num_samples |->
                         RMul(Half, RAdd(depths[i + 1], depths[i]))],
         min      |-> config.min_corner,
         max      |-> config.max_corner,
         shape    |-> config.shape,
         rgb_voxel_grid     |-> rgb_grid,
         density_voxel_grid |-> density_grid,
         background |-> config.background]

\* What a float division yields when the divisor is 0: no exception, but an
\* infinity of the dividend's sign, or NaN for 0/0.  The three are written as
\* pairs with denominator 0.
PosInf == <<1, 0>>
NegInf == <<-1, 0>>
NaN    == <<0, 0>>
IsNaN(x)  == x = NaN
Finite(x) == x[2] # 0

\* p / q on tensors of floats, p finite
FDiv(p, q) ==
    IF q[1] # 0 THEN RDiv(p, q)
    ELSE IF p[1] > 0 THEN PosInf ELSE IF p[1] < 0 THEN NegInf ELSE NaN

\* self.shape * (samples - self.min) / (self.max - self.min) at one point
Rescale(self, point) ==
    [c \in 1..3 |-> FDiv(RMul(<<self.shape[c], 1>>, RSub(Entry(point, c), self.min[c])),
                         RSub(self.max[c], self.min[c]))]

\* A voxel grid called at a rescaled point whose coordinates may be infinite
\* or NaN.  A NaN coordinate x makes the weight clamp(x - x0, 0, 1) NaN and
\* with it every entry of the value.  For x = +inf the weight is 1 and the
\* value is the one read at X1; for x = -inf the weight is 0 and the value is
\* the one read at X0.  floor(x).long() of an infinity is the least int64
\* (x86) or the signed infinity saturated (ARM, CUDA); X1 of +inf is then
\* clamp(least, 0, n-1) or clamp(greatest + 1 wrapped, 0, n-1), and X0 of -inf
\* is clamp(least, 0, n-1): the corner read is corner 0 of the axis on each,
\* which is the value of the lookup at coordinate 0.
GridQuery(grid, P) ==
    IF \E c \in 1..3 : IsNaN(P[c])
    THEN Squeeze([c \in 1..Len(grid.at[<<0, 0, 0>>]) |-> NaN])
    ELSE VoxelGrid_forward(grid, [c \in 1..3 |-> IF Finite(P[c]) THEN P[c] ELSE Zero])

\* F.relu
ReluMutIdentity(x) == x
Relu(x) == IF RLt(x, Zero) THEN Zero ELSE x

\* torch.clamp(rgb, 0.0, 1.0)
ClampColorMutNone(v) == v
ClampColor(v) == [c \in Channels |-> RClamp(v[c], Zero, One)]

\* The two grid queries of SimpleDVGO.forward along one ray: per sample the
\* rescaled point, the density before and after F.relu and the clamped colour.
\* (torch.squeeze drops the batch axis of a single ray; with two or more
\* samples per ray the values are those computed here.)
QueryRay(self, points) ==
    LET n == Len(points)
        rescaled == [i \in 1..n |-> Rescale(self, points[i])] \o <<>>
        raw == [i \in 1..n |-> GridQuery(self.density_voxel_grid, rescaled[i])] \o <<>>
        color == [i \in 1..n |-> GridQuery(self.rgb_voxel_grid, rescaled[i])] \o <<>>
    IN  [samples  |-> points,
         rescaled |-> rescaled,
         raw      |-> raw,
         \* F.relu and torch.clamp hand a NaN on
         density  |-> [i \in 1..n |-> IF IsNaN(raw[i]) THEN NaN ELSE Relu(raw[i])],
         rgb      |-> [i \in 1..n |-> IF IsNaN(color[i][1]) THEN color[i]
                                      ELSE ClampColor(color[i])]]

\* SimpleDVGO.forward up to the two grid queries; `sampled` is how the call of
\* sample_rays ended
Queried(self, rays, training, rand) ==
    LET sampled == sample_rays(self.t_values, rays, training, rand)
    IN  IF sampled.error # "none"
        THEN [error |-> sampled.error, sampled |-> sampled.error, value |-> <<>>]
        ELSE IF BroadcastWidth(Len(sampled.value[1][1]), 3) # 3
        THEN [error |-> "RuntimeError", sampled |-> "none", value |-> <<>>]
        ELSE [error |-> "none", sampled |-> "none",
              value |-> [b \in 1..Len(rays) |-> QueryRay(self, sampled.value[b])]]

\* the rest of SimpleDVGO.forward: per ray the weights and the colour of
\* render_along_ray(density, rgb, self.background)
\* render_along_ray on densities some of which are NaN: exp and cumsum hand
\* the NaN on, so the weights are NaN from the first NaN density on, and the
\* two sums make every channel of the colour NaN
RenderTraceNaN(density, rgb, background) ==
    LET first == CHOOSE i \in 1..Len(density) :
                    /\ IsNaN(density[i])
                    /\ \A j \in 1..(i - 1) : ~IsNaN(density[j])
    IN  [weights |-> Weights(SubSeq(density, 1, first - 1))
                       \o [i \in 1..(Len(density) - first + 1) |-> NaN],
         color   |-> [j \in Channels |-> NaN]]

Rendered(self, q) ==
    LET t == IF \E i \in 1..Len(q.density) : IsNaN(q.density[i])
             THEN RenderTraceNaN(q.density, q.rgb, self.background)
             ELSE RenderTrace(q.density, q.rgb, self.background)
    IN  [samples |-> q.samples, rescaled |-> q.rescaled, raw |-> q.raw,
         density |-> q.density, rgb |-> q.rgb,
         weights |-> t.weights, color |-> t.color]

Composited(self, q) ==
    IF q.error # "none" THEN q
    ELSE [q EXCEPT !.value = [b \in 1..Len(q.value) |-> Rendered(self, q.value[b])]]

SimpleDVGO_forward(self, rays, training, rand) ==
    Composited(self, Queried(self, rays, training, rand))

(***************************************************************************)
(* create_rays                                                             *)
(***************************************************************************)
\* get_x, get_y, get_z: the centre of pixel i on an axis (numbered 1..3)
PixelCenterMutCorner(config, axis, i) ==
    LET d == RDiv(RSub(config.max_corner[axis], config.min_corner[axis]),
                  <<config.shape[axis], 1>>)
    IN  RAdd(config.min_corner[axis], RMul(<<i, 1>>, d))
PixelCenter(config, axis, i) ==
    LET d == RDiv(RSub(config.max_corner[axis], config.min_corner[axis]),
                  <<config.shape[axis], 1>>)
    IN  RAdd(config.min_corner[axis], RMul(RAdd(<<i, 1>>, Half), d))

MinusOne == <<-1, 1>>

\* torch.zeros((a, b, 6)) filled by the two loops: a ray per pair of indices
RayGrid(a, b, ray(_, _)) ==
    [jk \in (0..(a - 1)) \X (0..(b - 1)) |-> ray(jk[1], jk[2])]

Raised(error) == [error |-> error, rays |-> <<>>]
Created(rays) == [error |-> "none", rays |-> rays]

\* a factory that rejects no face: every identifier is served as the "-z" face

create_raysMutNoValidation(config, face, off) ==
    LET n == config.shape[1]
        m == config.shape[2]
        lo == config.min_corner
    IN  Created(RayGrid(n, m, LAMBDA i, j :
           <<PixelCenter(config, 1, i), PixelCenter(config, 2, j),
             RAdd(config.max_corner[3], off), Zero, Zero, MinusOne>>))
create_rays(config, face, off) ==
    LET n == config.shape[1]
        m == config.shape[2]
        p == config.shape[3]
        lo == config.min_corner
        hi == config.max_corner
        get_x(i) == PixelCenter(config, 1, i)
        get_y(j) == PixelCenter(config, 2, j)
        get_z(k) == PixelCenter(config, 3, k)
    IN  CASE face = "x" ->
               Created(RayGrid(m, p, LAMBDA j, k :
                  <<RSub(lo[1], off), get_y(j), get_z(k), One, Zero, Zero>>))
          [] face = "-x" ->
               Created(RayGrid(m, p, LAMBDA j, k :
                  <<RAdd(hi[1], off), get_y(j), get_z(k), MinusOne, Zero, Zero>>))
          [] face = "y" ->
               Created(RayGrid(n, p, LAMBDA i, k :
                  <<get_x(i), RSub(lo[2], off), get_z(k), Zero, One, Zero>>))
          [] face = "-y" ->
               Created(RayGrid(n, p, LAMBDA i, k :
                  <<get_x(i), RAdd(hi[2], off), get_z(k), Zero, MinusOne, Zero>>))
          [] face = "z" ->
               Created(RayGrid(n, m, LAMBDA i, j :
                  <<get_x(i), get_y(j), RSub(lo[3], off), Zero, Zero, One>>))
          [] face = "-z" ->
               Created(RayGrid(n, m, LAMBDA i, j :
                  <<get_x(i), get_y(j), RAdd(hi[3], off), Zero, Zero, MinusOne>>))
          [] OTHER -> Raised("ValueError: Invalid face id")

(***************************************************************************)
(* The compositor as a state machine: arguments are chosen, the call       *)
(* returns, and a zero-density sample may then be inserted and the          *)
(* sequence rendered again.                                                *)
(***************************************************************************)
Idle == [pc |-> "idle"]

DensityValues == {Rat(k, Quantum) : k \in 0..MaxD}
Palette       == <<WHITE, MIXED, BLACK>>
SampleColors  == {Palette[k] : k \in 1..Len(Palette)}
Backgrounds   == SampleColors

\* n colours taken in turn from the palette, starting after the first `shift`
ColorCycle(n, shift) == [i \in 1..n |-> Palette[((i + shift) % Len(Palette)) + 1]]

SeqsOf(S, n) == [1..n -> S]

InsertAt(s, p, e) == SubSeq(s, 1, p) \o <<e>> \o SubSeq(s, p + 1, Len(s))

NoResult == [weights |-> <<>>, color |-> <<>>]

InitRender ==
    /\ \E n \in 1..MaxN :
       \E density \in SeqsOf(DensityValues, n), shift \in 0..(Len(Palette) - 1) :
       \E background \in Backgrounds :
          render = [pc |-> "args", density |-> density, rgb |-> ColorCycle(n, shift),
                    background |-> background, out |-> NoResult,
                    prev |-> NoResult, at |-> -1]
    /\ voxel = Idle /\ dvgo = Idle /\ orth = Idle

\* rendered = render_along_ray(density, rgb, background)
CallRenderAlongRay ==
    /\ render.pc = "args"
    /\ render' = [render EXCEPT
                    !.pc = "returned",
                    !.out = RenderTrace(render.density, render.rgb, render.background)]
    /\ UNCHANGED <<voxel, dvgo, orth>>

\* the same ray with one more sample of density 0 after the first p samples,
\* rendered again
InsertZeroDensitySample ==
    /\ render.pc = "returned"
    /\ render.at = -1
    /\ \E p \in 0..Len(render.density), c \in SampleColors :
         LET density == InsertAt(render.density, p, Zero)
             rgb     == InsertAt(render.rgb, p, c)
         IN  render' = [render EXCEPT
                          !.density = density, !.rgb = rgb,
                          !.prev = render.out, !.at = p,
                          !.out = RenderTrace(density, rgb, render.background)]
    /\ UNCHANGED <<voxel, dvgo, orth>>

NextRender == CallRenderAlongRay \/ InsertZeroDensitySample

SpecRender == InitRender /\ [][NextRender]_vars

(***************************************************************************)
(* Claims about render_along_ray.                                          *)
(***************************************************************************)
\* T_i = exp(-(d_1 + ... + d_{i-1})), from the exclusive prefix sum
ExclusiveT(density, i) == ExpNeg(RSumTo(density, i - 1))

ClosedFormWeight(density, i) ==
    RMul(RSub(One, ExpNeg(density[i])), ExclusiveT(density, i))

Returned == render.pc = "returned"

\* C1: render_along_ray returns sum_i w_i*c_i + (1 - sum_i w_i)*B with
\* w_i = (1 - exp(-d_i)) * T_i, T_1 = 1, T_i = exp(-(d_1+...+d_{i-1})) (the
\* exclusive prefix sum); for N = 1 the result is (1-exp(-D))*C + exp(-D)*B.
C1_ExclusiveTransmittance ==
    Returned =>
      LET d == render.density
          c == render.rgb
          B == render.background
          N == Len(d)
          w == [i \in 1..N |-> ClosedFormWeight(d, i)]
          sumw == RSum(w)
      IN  /\ render.out.weights = w
          /\ ExclusiveT(d, 1) = One
          /\ \A j \in Channels :
               render.out.color[j] =
                 RAdd(RSum([i \in 1..N |-> RMul(w[i], c[i][j])]),
                      RMul(RSub(One, sumw), B[j]))
          /\ N = 1 =>
               \A j \in Channels :
                 render.out.color[j] =
                   RAdd(RMul(RSub(One, ExpNeg(d[1])), c[1][j]),
                        RMul(ExpNeg(d[1]), B[j]))

\* a returned call with three samples, none of density 0, and one with a single
\* sample of positive density
C1_Witness ==
    /\ Returned
    /\ render.at = -1
    /\ Len(render.density) = 3
    /\ \A i \in 1..3 : render.density[i] # Zero
    /\ render.density[1] # render.density[2]
    /\ render.rgb[1] # render.rgb[2]

\* C3: inserting one sample of density 0 and any colour at any position 0..N
\* leaves the output unchanged: the inserted sample has weight 0 and the other
\* samples keep their weights.
C3_ZeroSampleInsertion ==
    (Returned /\ render.at >= 0) =>
      LET p == render.at
          N == Len(render.prev.weights)
      IN  /\ Len(render.density) = N + 1
          /\ render.density[p + 1] = Zero
          /\ render.out.color = render.prev.color
          /\ render.out.weights[p + 1] = Zero
          /\ \A i \in 1..N :
               render.out.weights[IF i <= p THEN i ELSE i + 1] = render.prev.weights[i]

\* a zero-density sample of another colour inserted in the middle of a ray
\* whose samples before and after it are not transparent
C3_Witness ==
    /\ Returned
    /\ render.at = 1
    /\ Len(render.density) = 3
    /\ render.density[1] # Zero
    /\ render.density[3] # Zero
    /\ render.rgb[2] # render.rgb[1]
    /\ render.rgb[2] # render.rgb[3]
    /\ render.out.color # render.background

(***************************************************************************)
(* The voxel grid as a state machine: a grid and a point are chosen, the   *)
(* lookup returns, and one coordinate that lies outside the grid may then  *)
(* be moved onto the nearest boundary and the point looked up again.       *)
(***************************************************************************)
\* the shape (voxels per axis) of the grids looked up
GridShape == <<2, 1, 1>>

\* a grid of width d = 1 that holds 1 at corner c and 0 elsewhere
IndicatorGrid(shape, c) ==
    [shape |-> StorageShape(shape),
     at    |-> [k \in Corners(shape) |-> IF k = c THEN <<One>> ELSE <<Zero>>]]

\* the colour grid of the notebook's test: torch.linspace(0, 1, X) along the
\* axis of each channel
RampGrid(shape) ==
    [shape |-> StorageShape(shape),
     at    |-> [k \in Corners(shape) |-> [c \in Channels |-> Rat(k[c], shape[c])]]]

VoxelGrids == {IndicatorGrid(GridShape, c) : c \in Corners(GridShape)}
                \cup {RampGrid(GridShape)}

\* coordinates from one lattice step below 0 to one above n, and one far out on
\* each side
Coordinates(n) ==
    {Rat(k, LatticeRes) : k \in (-1)..(n * LatticeRes + 1)}
      \cup {Rat(-(FarOut * LatticeRes) - 1, LatticeRes),
            Rat((n + FarOut) * LatticeRes + 1, LatticeRes)}

Points(shape) == Coordinates(shape[1]) \X Coordinates(shape[2]) \X Coordinates(shape[3])

NoLookup == [ok |-> FALSE, value |-> <<>>]

InitVoxel ==
    /\ \E grid \in VoxelGrids, P \in Points(GridShape) :
          voxel = [pc |-> "args", grid |-> grid, P |-> P, out |-> NoLookup,
                   prev |-> NoLookup, from |-> P, axis |-> 0]
    /\ render = Idle /\ dvgo = Idle /\ orth = Idle

\* out = voxel_grid(P)
CallVoxelGridForward ==
    /\ voxel.pc = "args"
    /\ voxel' = [voxel EXCEPT !.pc = "returned",
                              !.out = ForwardTrace(voxel.grid, voxel.P)]
    /\ UNCHANGED <<render, dvgo, orth>>

Voxels(grid, axis) == grid.shape[axis] - 1

Outside(grid, P, axis) ==
    RLt(P[axis], Zero) \/ RLt(<<Voxels(grid, axis), 1>>, P[axis])

NearestOnAxis(grid, P, axis) ==
    [P EXCEPT ![axis] = IF RLt(P[axis], Zero) THEN Zero
                        ELSE <<Voxels(grid, axis), 1>>]

\* the same grid looked up at the point with one outside coordinate replaced by
\* the nearest of 0 and n
LookupNearestBoundary ==
    /\ voxel.pc = "returned"
    /\ voxel.axis = 0
    /\ \E axis \in 1..3 :
         /\ Outside(voxel.grid, voxel.P, axis)
         /\ LET Q == NearestOnAxis(voxel.grid, voxel.P, axis)
            IN  voxel' = [voxel EXCEPT !.P = Q, !.prev = voxel.out, !.axis = axis,
                                       !.out = ForwardTrace(voxel.grid, Q)]
    /\ UNCHANGED <<render, dvgo, orth>>

NextVoxel == CallVoxelGridForward \/ LookupNearestBoundary

SpecVoxel == InitVoxel /\ [][NextVoxel]_vars

(***************************************************************************)
(* Claims about VoxelGrid.forward.                                         *)
(***************************************************************************)
LookedUp == voxel.pc = "returned"

InUnit(a) == RLe(Zero, a) /\ RLe(a, One)

\* C5: VoxelGrid.forward never fails: for every coordinate all index pairs of
\* bracket lie in 0..(corner count - 1) of their axis and each fractional
\* weight lies in [0,1], so the eight reads are valid and the result is a
\* blend of stored values.
C5_LookupNeverFails ==
    LookedUp =>
      LET o == voxel.out
          n == voxel.grid.shape
          v == o.value
      IN  /\ o.ok
          /\ {o.bx.X0, o.bx.X1} \subseteq 0..(n[1] - 1)
          /\ {o.by.X0, o.by.X1} \subseteq 0..(n[2] - 1)
          /\ {o.bz.X0, o.bz.X1} \subseteq 0..(n[3] - 1)
          /\ InUnit(o.bx.a) /\ InUnit(o.by.a) /\ InUnit(o.bz.a)
          /\ Len(v) = Len(voxel.grid.at[<<0, 0, 0>>])
          /\ \A c \in 1..Len(v) :
               \E lo \in DOMAIN voxel.grid.at, hi \in DOMAIN voxel.grid.at :
                  /\ RLe(voxel.grid.at[lo][c], v[c])
                  /\ RLe(v[c], voxel.grid.at[hi][c])

\* a lookup far beyond the last corner on one axis, below 0 on another and
\* exactly on the last corner on the third
C5_Witness ==
    /\ LookedUp
    /\ voxel.axis = 0
    /\ RLt(<<Voxels(voxel.grid, 1) + FarOut, 1>>, voxel.P[1])
    /\ RLt(voxel.P[2], Zero)
    /\ voxel.P[3] = <<Voxels(voxel.grid, 3), 1>>
    /\ voxel.out.value = <<One>>

\* C6: at a point whose coordinate on an axis is < 0 or > n the lookup returns
\* the same value as at the point with that coordinate replaced by 0 or n.
C6_ClampsToBoundary ==
    (LookedUp /\ voxel.axis # 0) =>
      /\ voxel.from[voxel.axis] # voxel.P[voxel.axis]
      /\ \A a \in 1..3 : a # voxel.axis => voxel.from[a] = voxel.P[a]
      /\ voxel.out.ok /\ voxel.prev.ok
      /\ voxel.out.value = voxel.prev.value

\* a point far above n on the first axis, strictly inside a cell on the two
\* others, moved onto x = n, where the value is neither 0 nor 1
C6_Witness ==
    /\ LookedUp
    /\ voxel.axis = 1
    /\ RLt(<<Voxels(voxel.grid, 1) + FarOut, 1>>, voxel.from[1])
    /\ ~IsInt(voxel.P[2]) /\ ~IsInt(voxel.P[3])
    /\ RLt(Zero, voxel.P[2]) /\ RLt(Zero, voxel.P[3])
    /\ voxel.out.value \notin {<<Zero>>, <<One>>}
    /\ voxel.out.value = voxel.prev.value

StrictlyInside(grid, P) ==
    \A a \in 1..3 :
       /\ ~IsInt(P[a])
       /\ RLt(Zero, P[a])
       /\ RLt(P[a], <<Voxels(grid, a), 1>>)

CellOffsets == [m \in 1..8 |-> <<(m - 1) \div 4, ((m - 1) \div 2) % 2, (m - 1) % 2>>]

\* the weight of corner cell + off: a product of (x-i or 1-(x-i)) per axis
CornerWeight(P, off) ==
    LET f(a) == RSub(P[a], <<RFloor(P[a]), 1>>)
        w(a) == IF off[a] = 1 THEN f(a) ELSE RSub(One, f(a))
    IN  RMul(RMul(w(1), w(2)), w(3))

\* C7: strictly inside cell (i,j,k), the last cell of an axis included, the
\* lookup is the blend of the eight corners grid[i+a, j+b, k+c] with the
\* product weights, which are nonnegative and sum to 1; a linear ramp is
\* reproduced exactly.
C7_TrilinearBlend ==
    (LookedUp /\ StrictlyInside(voxel.grid, voxel.P)) =>
      LET P == voxel.P
          g == voxel.grid.at
          cell == [a \in 1..3 |-> RFloor(P[a])]
          w == [m \in 1..8 |-> CornerWeight(P, CellOffsets[m])]
          corner(m) == <<cell[1] + CellOffsets[m][1], cell[2] + CellOffsets[m][2],
                         cell[3] + CellOffsets[m][3]>>
          v == voxel.out.value
      IN  /\ voxel.out.ok
          /\ \A m \in 1..8 : corner(m) \in DOMAIN g /\ RLe(Zero, w[m])
          /\ RSum(w) = One
          /\ \A c \in 1..Len(v) :
               v[c] = RSum([m \in 1..8 |-> RMul(w[m], g[corner(m)][c])])
          /\ voxel.grid = RampGrid(GridShape) =>
               \A c \in Channels : v[c] = Rat(P[c][1], P[c][2] * GridShape[c])

\* a point strictly inside the last cell of the first axis, at unequal
\* distances from its two faces, in the grid that holds 1 at the cell's far
\* corner
C7_Witness ==
    /\ LookedUp
    /\ StrictlyInside(voxel.grid, voxel.P)
    /\ RFloor(voxel.P[1]) = GridShape[1] - 1
    /\ voxel.P[1][2] > 2 /\ voxel.P[2][2] > 2 /\ voxel.P[3][2] > 2
    /\ voxel.grid = IndicatorGrid(GridShape, <<GridShape[1], GridShape[2], GridShape[3]>>)
    /\ voxel.out.value # <<Zero>>

\* the bracket of one axis in a lookup's trace
AxisBracket(o, a) == IF a = 1 THEN o.bx ELSE IF a = 2 THEN o.by ELSE o.bz

\* C15 as stated: on every axis with n voxels (n+1 stored corners) both
\* indices used by VoxelGrid.forward, floor(x) and floor(x)+1 after clamping,
\* lie in [0, n-1].
C15_ClampsToVoxelCountMinusOne ==
    LookedUp =>
      \A a \in 1..3 :
         LET b == AxisBracket(voxel.out, a)
             n == Voxels(voxel.grid, a)
         IN  {b.X0, b.X1} \subseteq 0..(n - 1)

\* C15 as amended: on every axis with n voxels (n+1 stored corners) the
\* indices used by VoxelGrid.forward are floor(x) and floor(x)+1 clamped to
\* [0, n], the corner count minus 1; neither ever exceeds n, and n itself is
\* used for every x >= n - 1 (by the upper index) and x >= n (by both).
C15_ClampsToCornerCountMinusOne ==
    LookedUp =>
      \A a \in 1..3 :
         LET b  == AxisBracket(voxel.out, a)
             n  == Voxels(voxel.grid, a)
             x  == voxel.P[a]
             x0 == RFloor(x)
         IN  /\ b.X0 = IClamp(x0, 0, n)
             /\ b.X1 = IClamp(x0 + 1, 0, n)
             /\ {b.X0, b.X1} \subseteq 0..n
             /\ RLe(<<n - 1, 1>>, x) => b.X1 = n
             /\ RLe(<<n, 1>>, x) => b.X0 = n

\* a lookup strictly inside the last voxel of the first axis, whose upper
\* index is the last corner n, and beyond the last corner of the second axis,
\* where both indices are n
C15_Witness ==
    /\ LookedUp
    /\ voxel.axis = 0
    /\ ~IsInt(voxel.P[1])
    /\ RFloor(voxel.P[1]) = Voxels(voxel.grid, 1) - 1
    /\ voxel.out.bx.X0 = Voxels(voxel.grid, 1) - 1
    /\ voxel.out.bx.X1 = Voxels(voxel.grid, 1)
    /\ RLt(<<Voxels(voxel.grid, 2), 1>>, voxel.P[2])
    /\ voxel.out.by.X0 = Voxels(voxel.grid, 2)
    /\ voxel.out.by.X1 = Voxels(voxel.grid, 2)
    /\ voxel.out.ok

(***************************************************************************)
(* The ray factory as a state machine: a configuration, a face identifier  *)
(* and an offset are chosen, and the call returns or raises.               *)
(***************************************************************************)
FaceIds == {"x", "-x", "y", "-y", "z", "-z"}
OtherIds == {"", "X", "+x", "xy", "w"}

BoundingBoxes ==
    {[min_corner |-> <<MinusOne, MinusOne, MinusOne>>, max_corner |-> <<One, One, One>>],
     [min_corner |-> <<Zero, <<-2, 1>>, Half>>, max_corner |-> <<One, One, <<2, 1>>>>]}

FaceShapes == (1..MaxPixels) \X (1..MaxPixels) \X (1..MaxPixels)

Offsets == {One, Half}

InitOrth ==
    /\ \E shape \in FaceShapes, box \in BoundingBoxes :
       \E face \in FaceIds \cup OtherIds, off \in Offsets :
          orth = [pc |-> "args",
                  config |-> [shape |-> shape, min_corner |-> box.min_corner,
                              max_corner |-> box.max_corner],
                  face |-> face, off |-> off, out |-> Raised("none")]
    /\ render = Idle /\ voxel = Idle /\ dvgo = Idle

\* rays = create_rays(config, face, off)
CallCreateRays ==
    /\ orth.pc = "args"
    /\ orth' = [orth EXCEPT !.pc = "done",
                            !.out = create_rays(orth.config, orth.face, orth.off)]
    /\ UNCHANGED <<render, voxel, dvgo>>

NextOrth == CallCreateRays

SpecOrth == InitOrth /\ [][NextOrth]_vars

(***************************************************************************)
(* Claims about create_rays.                                               *)
(***************************************************************************)
FactoryDone == orth.pc = "done"

\* C8: create_rays fails with an invalid-face error, returning no ray grid,
\* for every face identifier other than "x", "-x", "y", "-y", "z", "-z", and
\* succeeds for each of those six.
C8_InvalidFaceRejected ==
    FactoryDone =>
      /\ orth.face \notin FaceIds =>
           orth.out.error = "ValueError: Invalid face id" /\ orth.out.rays = <<>>
      /\ orth.face \in FaceIds =>
           orth.out.error = "none" /\ orth.out.rays # <<>>

\* the call has raised for an identifier that differs from a valid one only in
\* its sign character
C8_Witness ==
    /\ FactoryDone
    /\ orth.face = "+x"
    /\ orth.out.error # "none"

FaceAxis(face) ==
    IF face \in {"x", "-x"} THEN 1 ELSE IF face \in {"y", "-y"} THEN 2 ELSE 3

\* the two other axes, in increasing order
PixelAxes(face) ==
    IF FaceAxis(face) = 1 THEN <<2, 3>>
    ELSE IF FaceAxis(face) = 2 THEN <<1, 3>> ELSE <<1, 2>>

Positive(face) == face \in {"x", "y", "z"}

\* lo + (i + 0.5) * (hi - lo) / size
EvenlySpacedCenter(lo, hi, size, i) ==
    RAdd(lo, Rat((2 * i + 1) * RSub(hi, lo)[1], 2 * size * RSub(hi, lo)[2]))

\* C9: create_rays returns one ray per pixel of the face (m*p for +-x, n*p
\* for +-y, n*m for +-z); each direction is the axis-aligned unit normal
\* pointing into the box, the origin's face coordinate is min_corner - off
\* (positive face) or max_corner + off (negative face), and its two other
\* coordinates are the pixel centres lo + (i + 0.5)*(hi - lo)/size, strictly
\* between lo and hi.
C9_OnePixelCenteredRayPerPixel ==
    (FactoryDone /\ orth.face \in FaceIds) =>
      LET c    == orth.config
          axis == FaceAxis(orth.face)
          pa   == PixelAxes(orth.face)
          rays == orth.out.rays
      IN  /\ DOMAIN rays = (0..(c.shape[pa[1]] - 1)) \X (0..(c.shape[pa[2]] - 1))
          /\ Cardinality(DOMAIN rays) = c.shape[pa[1]] * c.shape[pa[2]]
          /\ \A ix \in DOMAIN rays :
               LET ray == rays[ix] IN
               /\ Len(ray) = 6
               /\ \A a \in 1..3 :
                    ray[3 + a] = IF a # axis THEN Zero
                                 ELSE IF Positive(orth.face) THEN One ELSE MinusOne
               /\ ray[axis] = IF Positive(orth.face)
                              THEN RSub(c.min_corner[axis], orth.off)
                              ELSE RAdd(c.max_corner[axis], orth.off)
               /\ \A t \in 1..2 :
                    /\ ray[pa[t]] = EvenlySpacedCenter(c.min_corner[pa[t]],
                                        c.max_corner[pa[t]], c.shape[pa[t]], ix[t])
                    /\ RLt(c.min_corner[pa[t]], ray[pa[t]])
                    /\ RLt(ray[pa[t]], c.max_corner[pa[t]])

\* the rays of a negative face whose two pixel axes have different sizes, in
\* the box whose sides differ
C9_Witness ==
    /\ FactoryDone
    /\ orth.face = "-y"
    /\ orth.config.shape = <<3, 1, 2>>
    /\ orth.config.min_corner[1] = Zero
    /\ orth.off = Half
    /\ orth.out.error = "none"
    /\ Cardinality(DOMAIN orth.out.rays) = 6

(***************************************************************************)
(* The scene renderer as a state machine: a renderer is constructed from a *)
(* configuration and two grids; forward is then called on a batch of rays, *)
(* returns or raises, and may be called again.                             *)
(***************************************************************************)
\* the notebook's Config(), on a smaller grid and with three samples per ray
ConfigA ==
    [near |-> Half, far |-> <<7, 2>>, num_samples |-> 3,
     min_corner |-> <<MinusOne, MinusOne, MinusOne>>, max_corner |-> <<One, One, One>>,
     shape |-> GridShape, background |-> WHITE]

ConfigB ==
    [near |-> Zero, far |-> <<2, 1>>, num_samples |-> 2,
     min_corner |-> <<MinusOne, Zero, Zero>>, max_corner |-> <<One, <<2, 1>>, <<2, 1>>>>,
     shape |-> GridShape, background |-> MIXED]

Configs == {ConfigA, ConfigB}

\* a density grid whose value depends on the first index only
SlabGrid(shape, h) ==
    [shape |-> StorageShape(shape),
     at    |-> [k \in Corners(shape) |-> <<Rat(h[k[1] + 1], 1)>>]]

\* a density grid that is v at corner c and 0 elsewhere
PointGrid(shape, c, v) ==
    [shape |-> StorageShape(shape),
     at    |-> [k \in Corners(shape) |-> IF k = c THEN <<Rat(v, 1)>> ELSE <<Zero>>]]

DensityGrids ==
    {SlabGrid(GridShape, h) :
        h \in {<<0, 0, 0>>, <<-2, -2, -2>>, <<0, 2, 0>>, <<-2, 2, -2>>, <<2, 2, 2>>}}
      \cup {PointGrid(GridShape, <<1, 0, 0>>, 4)}

\* a colour grid that holds one colour, outside [0,1] in two channels
ConstGrid(shape, color) ==
    [shape |-> StorageShape(shape), at |-> [k \in Corners(shape) |-> color]]

\* the ramp stretched to run from -1 to 2
WideRampGrid(shape) ==
    [shape |-> StorageShape(shape),
     at    |-> [k \in Corners(shape) |->
                  [c \in Channels |-> RSub(Rat(3 * k[c], shape[c]), One)]]]

ColorGrids ==
    {RampGrid(GridShape), WideRampGrid(GridShape),
     ConstGrid(GridShape, <<<<2, 1>>, MinusOne, Half>>)}

\* the rays of a face, as a set
FaceRays(config, face, off) ==
    LET made == create_rays(config, face, off).rays
    IN  {made[ix] : ix \in DOMAIN made}

\* rays of width 6: the rays create_rays makes for three faces, one that
\* passes beside the box, and a diagonal one of direction length above 1
Rays(config) ==
    UNION {FaceRays(config, face, off) : face \in {"x", "-x", "y"}, off \in Offsets}
      \cup {<<RSub(config.min_corner[1], One), RAdd(config.max_corner[2], <<2, 1>>),
              config.min_corner[3], One, Zero, Zero>>,
            <<RSub(config.min_corner[1], One), RSub(config.min_corner[2], One),
              config.max_corner[3], One, One, Zero>>}

\* a ray vector cut or padded to width w
OfWidth(ray, w) == [c \in 1..w |-> IF c <= Len(ray) THEN ray[c] ELSE Zero]

FirstXRay(config) == create_rays(config, "x", One).rays[<<0, 0>>]

\* batches: every ray alone, two batches of two rays, and batches of each
\* other width
Batches(config) ==
    {<<r>> : r \in Rays(config)}
      \cup {<<FirstXRay(config), create_rays(config, "-x", Half).rays[<<0, 0>>]>>}
      \cup {<<OfWidth(FirstXRay(config), w)>> : w \in (0..MaxWidth) \ {6}}
      \cup {<<OfWidth(FirstXRay(config), 4), OfWidth(FirstXRay(config), 4)>>}

\* what torch.rand(n) may draw: all 0, all 1/2, or the two in turn
RandDraws(n) ==
    {[i \in 1..n |-> Zero], [i \in 1..n |-> Half],
     [i \in 1..n |-> IF i % 2 = 1 THEN Half ELSE Zero]}

NoCall == [rays |-> <<>>, training |-> FALSE, rand |-> <<>>]
NoOutput == [error |-> "none", sampled |-> "none", value |-> <<>>]

InitDvgo ==
    /\ \E config \in Configs, density_grid \in DensityGrids, rgb_grid \in ColorGrids :
          dvgo = [pc |-> "ready", config |-> config,
                  self |-> SimpleDVGO_init(config, density_grid, rgb_grid),
                  call |-> NoCall, out |-> NoOutput, jittered |-> FALSE]
    /\ render = Idle /\ voxel = Idle /\ orth = Idle

\* every density handed to torch.exp is a multiple of 1/Quantum
ExactExp(q) ==
    q.error = "none" =>
      \A b \in 1..Len(q.value) : \A i \in 1..Len(q.value[b].density) :
         IF IsNaN(q.value[b].density[i]) THEN TRUE
         ELSE OnQuantum(q.value[b].density[i])

\* colors = dvgo(rays, training); self.t_values is what sample_rays leaves of
\* it, and jittered records that some call so far has moved its depths
CallForward ==
    /\ dvgo.pc = "ready"
    /\ \E rays \in Batches(dvgo.config), training \in BOOLEAN :
       \E rand \in IF training THEN RandDraws(Len(dvgo.self.t_values)) ELSE {<<>>} :
          LET q == Queried(dvgo.self, rays, training, rand)
          IN  /\ ExactExp(q)
              /\ dvgo' = [dvgo EXCEPT
                            !.pc = "returned",
                            !.call = [rays |-> rays, training |-> training, rand |-> rand],
                            !.self.t_values = StoredTs(@, training, rand),
                            !.jittered = @ \/ ActualTs(dvgo.self.t_values, training, rand)
                                                # dvgo.self.t_values,
                            !.out = Composited(dvgo.self, q)]
    /\ UNCHANGED <<render, voxel, orth>>

\* the caller drops the result; the renderer is ready for the next call
DropResult ==
    /\ dvgo.pc = "returned"
    /\ dvgo' = [dvgo EXCEPT !.pc = "ready", !.call = NoCall, !.out = NoOutput]
    /\ UNCHANGED <<render, voxel, orth>>

NextDvgo == CallForward \/ DropResult

SpecDvgo == InitDvgo /\ [][NextDvgo]_vars

\* the compositor called directly, or through the scene renderer
SpecScene == (InitRender \/ InitDvgo) /\ [][NextRender \/ NextDvgo]_vars

(***************************************************************************)
(* The scene renderer from its configuration on: SimpleDVGO(config) is     *)
(* called on a configuration whose box may be flat, and forward is then    *)
(* called on the renderer it returns.                                      *)
(***************************************************************************)
\* a box with max_corner = min_corner on the second axis only
FlatConfig ==
    [near |-> Zero, far |-> <<2, 1>>, num_samples |-> 2,
     min_corner |-> <<MinusOne, Zero, Zero>>, max_corner |-> <<One, Zero, <<2, 1>>>>,
     shape |-> GridShape, background |-> MIXED]

\* a box with max_corner = min_corner on every axis
PointConfig ==
    [near |-> Half, far |-> <<7, 2>>, num_samples |-> 3,
     min_corner |-> <<MinusOne, MinusOne, MinusOne>>,
     max_corner |-> <<MinusOne, MinusOne, MinusOne>>,
     shape |-> GridShape, background |-> WHITE]

\* near < far less than 1 apart
NarrowConfig ==
    [near |-> Zero, far |-> Half, num_samples |-> 2,
     min_corner |-> <<MinusOne, MinusOne, MinusOne>>, max_corner |-> <<One, One, One>>,
     shape |-> GridShape, background |-> WHITE]

AnyConfigs == Configs \cup {FlatConfig, PointConfig, NarrowConfig}

NoRenderer == <<>>

InitConfig ==
    /\ \E config \in AnyConfigs :
          dvgo = [pc |-> "config", config |-> config, self |-> NoRenderer,
                  call |-> NoCall, out |-> NoOutput, jittered |-> FALSE]
    /\ render = Idle /\ voxel = Idle /\ orth = Idle

\* dvgo = SimpleDVGO(config), the grids then given their contents;
\* __init__ has no failing path
Construct ==
    /\ dvgo.pc = "config"
    /\ \E density_grid \in DensityGrids, rgb_grid \in ColorGrids :
          dvgo' = [dvgo EXCEPT
                     !.pc = "ready",
                     !.self = SimpleDVGO_init(dvgo.config, density_grid, rgb_grid)]
    /\ UNCHANGED <<render, voxel, orth>>

NextConfig == Construct \/ CallForward \/ DropResult

SpecConfig == InitConfig /\ [][NextConfig]_vars

(***************************************************************************)
(* Claims about SimpleDVGO.forward.                                        *)
(***************************************************************************)
ForwardReturned == dvgo.pc = "returned"

RayWidth == Len(dvgo.call.rays[1])

C10_RejectsWidthNot6 ==
    (ForwardReturned /\ RayWidth # 6) =>
      /\ dvgo.out.sampled # "none"
      /\ dvgo.out.error # "none"

DegenerateBox(config) ==
    \E c \in 1..3 : config.max_corner[c] = config.min_corner[c]

\* forward has divided by zero: a rescaled coordinate is infinite or NaN
DividedByZero ==
    /\ ForwardReturned
    /\ dvgo.out.error = "none"
    /\ \E b \in 1..Len(dvgo.out.value) :
         \E i \in 1..Len(dvgo.out.value[b].rescaled) :
            \E c \in 1..3 : ~Finite(dvgo.out.value[b].rescaled[i][c])

\* C11: SimpleDVGO(config) with max_corner equal to min_corner on any axis
\* fails at construction with a degenerate-bounding-box error: no renderer is
\* ever constructed from such a configuration, and no call of forward divides
\* by zero in the coordinate rescaling.
C11_DegenerateBoxRejected ==
    /\ DegenerateBox(dvgo.config) => dvgo.pc \in {"config", "failed"}
    /\ ~DividedByZero

\* the i-th midpoint of the num_samples + 1 equally spaced depths from near to
\* far: near + (2i - 1) * (far - near) / (2 * num_samples)
Midpoint(config, i) ==
    RAdd(config.near,
         RDiv(RMul(<<2 * i - 1, 1>>, RSub(config.far, config.near)),
              <<2 * config.num_samples, 1>>))

\* C13: with training=False no perturbation is applied: every sample point of
\* sample_rays is origin + t_i * direction for the configured depth t_i, the
\* i-th midpoint of the num_samples+1 equally spaced depths from near to far,
\* in every state reached after any sequence of earlier training=True and
\* training=False calls; the stored depth sequence is never changed by a call.
C13_EvalSamplesAtConfiguredDepths ==
    /\ dvgo.pc \in {"ready", "returned"} =>
         /\ Len(dvgo.self.t_values) = dvgo.config.num_samples
         /\ \A i \in 1..dvgo.config.num_samples :
              dvgo.self.t_values[i] = Midpoint(dvgo.config, i)
    /\ (ForwardReturned /\ ~dvgo.call.training /\ RayWidth = 6) =>
         /\ dvgo.out.sampled = "none"
         /\ dvgo.out.error = "none"
         /\ \A b \in 1..Len(dvgo.call.rays) :
              LET ray == dvgo.call.rays[b]
                  points == dvgo.out.value[b].samples
              IN  /\ Len(points) = dvgo.config.num_samples
                  /\ \A i \in 1..Len(points) : \A c \in 1..3 :
                       points[i][c] =
                          RAdd(ray[c], RMul(Midpoint(dvgo.config, i), ray[3 + c]))

\* a training=False call on a diagonal ray, made after a training=True call
\* whose depths were moved
C13_Witness ==
    /\ ForwardReturned
    /\ ~dvgo.call.training
    /\ dvgo.jittered
    /\ RayWidth = 6
    /\ dvgo.out.error = "none"
    /\ dvgo.call.rays[1][4] # Zero /\ dvgo.call.rays[1][5] # Zero
    /\ dvgo.out.value[1].samples[1] # dvgo.out.value[1].samples[2]

\* the depth of sample i of a ray, read from the sample point: the t with
\* point = origin + t * direction
DepthOf(ray, point) ==
    LET c == CHOOSE k \in 1..3 : ray[3 + k] # Zero
    IN  RDiv(RSub(point[c], ray[c]), ray[3 + c])

\* C14: in SimpleDVGO.forward, for every configuration with near < far and
\* num_samples >= 1 and both values of training, the depths of the samples
\* handed to render_along_ray are strictly increasing along each ray, and with
\* training=True every jittered depth stays inside its own bin
\* [depths[i], depths[i+1]].
C14_DepthsStrictlyIncreasing ==
    (/\ ForwardReturned /\ RayWidth = 6 /\ dvgo.out.error = "none"
     /\ RLt(dvgo.config.near, dvgo.config.far) /\ dvgo.config.num_samples >= 1) =>
      \A b \in 1..Len(dvgo.call.rays) :
         LET ray == dvgo.call.rays[b]
             points == dvgo.out.value[b].samples
             depth == [i \in 1..Len(points) |-> DepthOf(ray, points[i])]
         IN  /\ \A i \in 1..(Len(points) - 1) : RLt(depth[i], depth[i + 1])
             /\ dvgo.call.training =>
                  \A i \in 1..Len(points) :
                     /\ RLe(dvgo.self.depths[i], depth[i])
                     /\ RLe(depth[i], dvgo.self.depths[i + 1])

====
